---- MODULE Spec2Model ----
(***************************************************************************)
(* A hash table with separate chaining (src/hashtable.py) over a singly    *)
(* linked list with head and tail references (src/linkedlist.py).          *)
(*                                                                         *)
(* A LinkedList is a record [head, tail, size, data, next]: the nodes are  *)
(* numbered 1..Len(data); data[n] and next[n] are the fields of Node n and *)
(* None (0) is the absent reference.  A HashTable is a record              *)
(* [buckets, size]; bucket index i of the source is buckets[i + 1].        *)
(* Every operation is an operator that returns the object as the call      *)
(* leaves it (also when it raises), the exception raised and the value     *)
(* returned.                                                               *)
(***************************************************************************)
EXTENDS Integers, Sequences, FiniteSets, TLC

VARIABLES ht, ll, call, ret, pre, prior, everSet, onlySets, ref, onlyAPD,
          bucketCount

vars == <<ht, ll, call, ret, pre, prior, everSet, onlySets, ref, onlyAPD,
          bucketCount>>

----------------------------------------------------------------------------
(* Bounds of the model *)

MaxInitSize == 2
MaxKey == 2
MaxVal == 2
MaxItem == 2
MaxLen == 3
MaxUnderflow == 2

InitSizes == 1..MaxInitSize
Keys == 0..MaxKey
Vals == 1..MaxVal
ChainItems == 1..MaxItem
Qualities == SUBSET ChainItems

None == 0
NoExc == "none"
KeyError == "KeyError"
ValueError == "ValueError"

Result(obj, exc, val) == [obj |-> obj, exc |-> exc, val |-> val]

----------------------------------------------------------------------------
(* linkedlist.py *)

\* Node(data): a new node object, data set and next None
Node(l, item) ==
    [l EXCEPT !.data = Append(l.data, item), !.next = Append(l.next, None)]

NewNode(l) == Len(l.data) + 1

LinkedList_init ==
    [head |-> None, tail |-> None, size |-> 0, data |-> <<>>, next |-> <<>>]

RECURSIVE ItemsFrom(_, _)
ItemsFrom(l, node) ==
    IF node = None THEN <<>>
    ELSE <<l.data[node]>> \o ItemsFrom(l, l.next[node])

LinkedList_items(l) == ItemsFrom(l, l.head)

LinkedList_is_empty(l) == l.head = None

LinkedList_length(l) == l.size

LinkedList_append(l, item) ==
    LET node == NewNode(l)
        l1 == Node(l, item)
        l2 == IF l1.tail # None
              THEN [l1 EXCEPT !.next[l1.tail] = node]
              ELSE [l1 EXCEPT !.head = node]
    IN  Result([l2 EXCEPT !.tail = node, !.size = l2.size + 1], NoExc, None)

LinkedList_prepend(l, item) ==
    LET node == NewNode(l)
        l1 == Node(l, item)
        l2 == IF ~LinkedList_is_empty(l1)
              THEN [l1 EXCEPT !.next[node] = l1.head]
              ELSE [l1 EXCEPT !.tail = node]
    IN  Result([l2 EXCEPT !.head = node, !.size = l2.size + 1], NoExc, None)

\* find that keeps the last entry of the given quality instead of the first
RECURSIVE FindLoop_last(_, _, _)
FindLoop_last(l, quality, current_node) ==
    IF current_node = None THEN None
    ELSE LET rest == FindLoop_last(l, quality, l.next[current_node])
         IN  IF rest # None THEN rest
             ELSE IF l.data[current_node] \in quality
             THEN l.data[current_node]
             ELSE None

\* the while loop of find; a quality is the set of the data it is True for
RECURSIVE FindLoop(_, _, _)
FindLoop(l, quality, current_node) ==
    IF current_node = None THEN None
    ELSE IF l.data[current_node] \in quality THEN l.data[current_node]
    ELSE FindLoop(l, quality, l.next[current_node])

LinkedList_find(l, quality) ==
    IF ~LinkedList_is_empty(l)
    THEN Result(l, NoExc, FindLoop(l, quality, l.head))
    ELSE Result(l, NoExc, None)

\* delete whose first-node branch leaves head on the deleted node
RECURSIVE DeleteLoop_head(_, _, _, _, _)
DeleteLoop_head(l, item, previous_node, current_node, is_found) ==
    IF current_node = None THEN [l |-> l, is_found |-> is_found]
    ELSE IF l.data[current_node] = item
    THEN LET l1 == IF previous_node = None
                   THEN l
                   ELSE IF current_node = l.tail
                   THEN [l EXCEPT !.tail = previous_node,
                                  !.next[previous_node] = None]
                   ELSE [l EXCEPT !.next[previous_node] = l.next[current_node]]
         IN  DeleteLoop_head(l1, item, current_node, l1.next[current_node],
                             TRUE)
    ELSE DeleteLoop_head(l, item, current_node, l.next[current_node],
                         is_found)

\* delete that treats every node behind the first as the last one
RECURSIVE DeleteLoop_cut(_, _, _, _, _)
DeleteLoop_cut(l, item, previous_node, current_node, is_found) ==
    IF current_node = None THEN [l |-> l, is_found |-> is_found]
    ELSE IF l.data[current_node] = item
    THEN LET l1 == IF previous_node = None
                   THEN [l EXCEPT !.head = l.next[current_node]]
                   ELSE [l EXCEPT !.tail = previous_node,
                                  !.next[previous_node] = None]
         IN  DeleteLoop_cut(l1, item, current_node, l1.next[current_node],
                            TRUE)
    ELSE DeleteLoop_cut(l, item, current_node, l.next[current_node], is_found)

\* the while loop of delete: the list and is_found when the loop ends
RECURSIVE DeleteLoop(_, _, _, _, _)
DeleteLoop(l, item, previous_node, current_node, is_found) ==
    IF current_node = None THEN [l |-> l, is_found |-> is_found]
    ELSE IF l.data[current_node] = item
    THEN LET l1 == IF previous_node = None
                   THEN [l EXCEPT !.head = l.next[current_node]]
                   ELSE IF current_node = l.tail
                   THEN [l EXCEPT !.tail = previous_node,
                                  !.next[previous_node] = None]
                   ELSE [l EXCEPT !.next[previous_node] = l.next[current_node]]
         IN  DeleteLoop(l1, item, current_node, l1.next[current_node], TRUE)
    ELSE DeleteLoop(l, item, current_node, l.next[current_node], is_found)

\* delete whose one-node branch forgets the count
LinkedList_delete_single(l, item) ==
    IF LinkedList_is_empty(l) THEN Result(l, ValueError, None)
    ELSE IF l.head = l.tail
    THEN IF l.data[l.head] = item
         THEN Result([l EXCEPT !.head = None, !.tail = None], NoExc, None)
         ELSE Result(l, ValueError, None)
    ELSE LET r == DeleteLoop(l, item, None, l.head, FALSE)
             l1 == [r.l EXCEPT !.size = r.l.size - 1]
         IN  IF r.is_found = FALSE THEN Result(l1, ValueError, None)
             ELSE Result(l1, NoExc, None)

LinkedList_delete(l, item) ==
    IF LinkedList_is_empty(l) THEN Result(l, ValueError, None)
    ELSE IF l.head = l.tail
    THEN IF l.data[l.head] = item
         THEN Result([l EXCEPT !.head = None, !.tail = None,
                               !.size = l.size - 1], NoExc, None)
         ELSE Result(l, ValueError, None)
    ELSE LET r == DeleteLoop(l, item, None, l.head, FALSE)
             l1 == [r.l EXCEPT !.size = r.l.size - 1]
         IN  IF r.is_found = FALSE THEN Result(l1, ValueError, None)
             ELSE Result(l1, NoExc, None)

\* replace that finds the node and returns without storing new_data
RECURSIVE ReplaceLoop_keep(_, _, _, _)
ReplaceLoop_keep(l, item, new_data, current_node) ==
    IF current_node = None THEN Result(l, ValueError, None)
    ELSE IF l.data[current_node] = item
    THEN Result(l, NoExc, None)
    ELSE ReplaceLoop_keep(l, item, new_data, l.next[current_node])

\* replace that goes on after the first match and rewrites every equal entry
RECURSIVE ReplaceLoop_all(_, _, _, _)
ReplaceLoop_all(l, item, new_data, current_node) ==
    IF current_node = None THEN Result(l, ValueError, None)
    ELSE IF l.data[current_node] = item
    THEN LET r == ReplaceLoop_all([l EXCEPT !.data[current_node] = new_data],
                                  item, new_data, l.next[current_node])
         IN  Result(r.obj, NoExc, None)
    ELSE ReplaceLoop_all(l, item, new_data, l.next[current_node])

RECURSIVE ReplaceLoop(_, _, _, _)
ReplaceLoop(l, item, new_data, current_node) ==
    IF current_node = None THEN Result(l, ValueError, None)
    ELSE IF l.data[current_node] = item
    THEN Result([l EXCEPT !.data[current_node] = new_data], NoExc, None)
    ELSE ReplaceLoop(l, item, new_data, l.next[current_node])

LinkedList_replace(l, item, new_data) == ReplaceLoop(l, item, new_data, l.head)

\* Nodes no reference reaches are freed; node identity is opaque, so the
\* nodes that remain are numbered in the order head reaches them, followed
\* by those only tail reaches.
RECURSIVE NodesFrom(_, _)
NodesFrom(l, node) ==
    IF node = None THEN <<>> ELSE <<node>> \o NodesFrom(l, l.next[node])

InSeq(x, s) == \E i \in 1..Len(s) : s[i] = x

Collect(l) ==
    LET fromHead == NodesFrom(l, l.head)
        fromTail == SelectSeq(NodesFrom(l, l.tail),
                              LAMBDA n : ~InSeq(n, fromHead))
        live == fromHead \o fromTail
        Ren(n) == IF n = None THEN None
                  ELSE CHOOSE i \in 1..Len(live) : live[i] = n
    IN  [head |-> Ren(l.head), tail |-> Ren(l.tail), size |-> l.size,
         data |-> [i \in 1..Len(live) |-> l.data[live[i]]],
         next |-> [i \in 1..Len(live) |-> Ren(l.next[live[i]])]]

----------------------------------------------------------------------------
(* hashtable.py *)

HashTable_init(init_size) ==
    [buckets |-> [i \in 1..init_size |-> LinkedList_init], size |-> 0]

\* hash(key) of a small non-negative int is the int itself
Hash(key) == key

\* bucket index that moves with the number of entries
HashTable_bucket_index_size(t, key) == (Hash(key) + t.size) % Len(t.buckets)

HashTable_bucket_index(t, key) == Hash(key) % Len(t.buckets)

\* self.buckets[self._bucket_index(key)]
BucketOf(t, key) == t.buckets[HashTable_bucket_index(t, key) + 1]

\* for other_key, other_value in items: if other_key == key: the index of
\* the first pair the loop stops at, 0 when it runs to the end
RECURSIVE ScanFrom(_, _, _)
ScanFrom(items, key, i) ==
    IF i > Len(items) THEN 0
    ELSE IF items[i][1] = key THEN i
    ELSE ScanFrom(items, key, i + 1)

Scan(items, key) == ScanFrom(items, key, 1)

\* keys that walks the buckets from the last to the first
RECURSIVE KeysFrom_rev(_, _)
KeysFrom_rev(t, b) ==
    IF b > Len(t.buckets) THEN <<>>
    ELSE LET items == LinkedList_items(t.buckets[b])
         IN  KeysFrom_rev(t, b + 1) \o [i \in 1..Len(items) |-> items[i][1]]

RECURSIVE KeysFrom(_, _)
KeysFrom(t, b) ==
    IF b > Len(t.buckets) THEN <<>>
    ELSE LET items == LinkedList_items(t.buckets[b])
         IN  [i \in 1..Len(items) |-> items[i][1]] \o KeysFrom(t, b + 1)

HashTable_keys(t) == KeysFrom(t, 1)

RECURSIVE ValuesFrom(_, _)
ValuesFrom(t, b) ==
    IF b > Len(t.buckets) THEN <<>>
    ELSE LET items == LinkedList_items(t.buckets[b])
         IN  [i \in 1..Len(items) |-> items[i][2]] \o ValuesFrom(t, b + 1)

HashTable_values(t) == ValuesFrom(t, 1)

RECURSIVE AllItemsFrom(_, _)
AllItemsFrom(t, b) ==
    IF b > Len(t.buckets) THEN <<>>
    ELSE LinkedList_items(t.buckets[b]) \o AllItemsFrom(t, b + 1)

HashTable_items(t) == AllItemsFrom(t, 1)

HashTable_length(t) == t.size

HashTable_contains(t, key) ==
    LET items == LinkedList_items(BucketOf(t, key))
    IN  Result(t, NoExc, Scan(items, key) # 0)

HashTable_get(t, key) ==
    LET items == LinkedList_items(BucketOf(t, key))
        i == Scan(items, key)
    IN  IF i # 0 THEN Result(t, NoExc, items[i][2])
        ELSE Result(t, KeyError, None)

\* set that counts a replaced entry as a new one
HashTable_set_count(t, key, value) ==
    LET b == HashTable_bucket_index(t, key) + 1
        specific_bucket == t.buckets[b]
        items == LinkedList_items(specific_bucket)
        i == Scan(items, key)
        r == IF i # 0
             THEN LinkedList_replace(specific_bucket, items[i], <<key, value>>)
             ELSE LinkedList_append(specific_bucket, <<key, value>>)
    IN  Result([t EXCEPT !.buckets[b] = r.obj, !.size = t.size + 1],
               r.exc, None)

\* set that appends without looking for the key
HashTable_set_append(t, key, value) ==
    LET b == HashTable_bucket_index(t, key) + 1
        r == LinkedList_append(t.buckets[b], <<key, value>>)
    IN  Result([t EXCEPT !.buckets[b] = r.obj, !.size = t.size + 1],
               NoExc, None)

\* set that hands replace the new pair as the pair to look for
HashTable_set_wrongold(t, key, value) ==
    LET b == HashTable_bucket_index(t, key) + 1
        specific_bucket == t.buckets[b]
        items == LinkedList_items(specific_bucket)
        i == Scan(items, key)
    IN  IF i # 0
        THEN LET r == LinkedList_replace(specific_bucket, <<key, value>>,
                                         <<key, value>>)
             IN  Result([t EXCEPT !.buckets[b] = r.obj], r.exc, None)
        ELSE LET r == LinkedList_append(specific_bucket, <<key, value>>)
             IN  Result([t EXCEPT !.buckets[b] = r.obj, !.size = t.size + 1],
                        NoExc, None)

HashTable_set(t, key, value) ==
    LET b == HashTable_bucket_index(t, key) + 1
        specific_bucket == t.buckets[b]
        items == LinkedList_items(specific_bucket)
        i == Scan(items, key)
    IN  IF i # 0
        THEN LET r == LinkedList_replace(specific_bucket, items[i],
                                         <<key, value>>)
             IN  Result([t EXCEPT !.buckets[b] = r.obj], r.exc, None)
        ELSE LET r == LinkedList_append(specific_bucket, <<key, value>>)
             IN  Result([t EXCEPT !.buckets[b] = r.obj, !.size = t.size + 1],
                        NoExc, None)

\* delete that hands the chain a pair to delete without scanning for the key
HashTable_delete_blind(t, key) ==
    LET b == HashTable_bucket_index(t, key) + 1
        specific_bucket == t.buckets[b]
        items == LinkedList_items(specific_bucket)
        i == Scan(items, key)
        r == LinkedList_delete(specific_bucket,
                               IF i # 0 THEN items[i] ELSE <<key, None>>)
    IN  IF r.exc # NoExc
        THEN Result([t EXCEPT !.buckets[b] = r.obj], KeyError, None)
        ELSE Result([t EXCEPT !.buckets[b] = r.obj, !.size = t.size - 1],
                    NoExc, None)

\* delete that leaves the total count alone
HashTable_delete_nocount(t, key) ==
    LET b == HashTable_bucket_index(t, key) + 1
        specific_bucket == t.buckets[b]
        items == LinkedList_items(specific_bucket)
        i == Scan(items, key)
    IN  IF i # 0
        THEN LET r == LinkedList_delete(specific_bucket, items[i])
             IN  Result([t EXCEPT !.buckets[b] = r.obj], r.exc, None)
        ELSE Result(t, KeyError, None)

HashTable_delete(t, key) ==
    LET b == HashTable_bucket_index(t, key) + 1
        specific_bucket == t.buckets[b]
        items == LinkedList_items(specific_bucket)
        i == Scan(items, key)
    IN  IF i # 0
        THEN LET r == LinkedList_delete(specific_bucket, items[i])
             IN  IF r.exc # NoExc
                 THEN Result([t EXCEPT !.buckets[b] = r.obj], r.exc, None)
                 ELSE Result([t EXCEPT !.buckets[b] = r.obj,
                                       !.size = t.size - 1], NoExc, None)
        ELSE Result(t, KeyError, None)

CollectTable(t) ==
    [t EXCEPT !.buckets = [b \in 1..Len(t.buckets) |-> Collect(t.buckets[b])]]

----------------------------------------------------------------------------
(* The callers: one action per public operation.  call is the last call    *)
(* made, ret its outcome and pre the objects as they were before it.       *)
(* prior is the call before the last and its result, kept when the last    *)
(* call is a get of the key it set, or when both are enumerations.         *)
(* everSet is the set of keys passed to set while onlySets holds, that is  *)
(* while delete has not been called.  bucketCount is the init_size the     *)
(* table was constructed with.                                             *)

Call(op, arg1, arg2) == [op |-> op, arg1 |-> arg1, arg2 |-> arg2]

Outcome(exc, val) == [exc |-> exc, val |-> val]

Snapshot == [ht |-> ht, ll |-> ll]

Enumerations == {"keys", "values", "items"}

NoPrior == [op |-> "other", val |-> None]

Prior(c) ==
    IF c.op = "get" /\ call.op = "set" /\ call.arg1 = c.arg1
    THEN [op |-> "set", val |-> call.arg2]
    ELSE IF c.op \in Enumerations /\ call.op \in Enumerations
    THEN [op |-> call.op, val |-> ret.val]
    ELSE NoPrior

Init ==
    /\ bucketCount \in InitSizes
    /\ ht = HashTable_init(bucketCount)
    /\ ll = LinkedList_init
    /\ call = Call("init", None, None)
    /\ ret = Outcome(NoExc, None)
    /\ pre = [ht |-> ht, ll |-> ll]
    /\ prior = NoPrior
    /\ everSet = {}
    /\ onlySets = TRUE
    /\ ref = <<>>
    /\ onlyAPD = TRUE

TableCall(c, r) ==
    /\ call' = c
    /\ ht' = CollectTable(r.obj)
    /\ ret' = Outcome(r.exc, r.val)
    /\ pre' = Snapshot
    /\ prior' = Prior(c)
    /\ UNCHANGED <<ll, ref, onlyAPD, bucketCount>>

Set(key, value) ==
    /\ TableCall(Call("set", key, value), HashTable_set(ht, key, value))
    /\ everSet' = IF onlySets THEN everSet \cup {key} ELSE {}
    /\ UNCHANGED onlySets

Delete(key) ==
    /\ TableCall(Call("delete", key, None), HashTable_delete(ht, key))
    /\ onlySets' = FALSE
    /\ everSet' = {}

Get(key) ==
    /\ TableCall(Call("get", key, None), HashTable_get(ht, key))
    /\ UNCHANGED <<everSet, onlySets>>

Contains(key) ==
    /\ TableCall(Call("contains", key, None), HashTable_contains(ht, key))
    /\ UNCHANGED <<everSet, onlySets>>

Length ==
    /\ TableCall(Call("length", None, None),
                 Result(ht, NoExc, HashTable_length(ht)))
    /\ UNCHANGED <<everSet, onlySets>>

KeysCall ==
    /\ TableCall(Call("keys", None, None), Result(ht, NoExc, HashTable_keys(ht)))
    /\ UNCHANGED <<everSet, onlySets>>

ValuesCall ==
    /\ TableCall(Call("values", None, None),
                 Result(ht, NoExc, HashTable_values(ht)))
    /\ UNCHANGED <<everSet, onlySets>>

ItemsCall ==
    /\ TableCall(Call("items", None, None),
                 Result(ht, NoExc, HashTable_items(ht)))
    /\ UNCHANGED <<everSet, onlySets>>

Next ==
    \/ \E key \in Keys, value \in Vals : Set(key, value)
    \/ \E key \in Keys : Delete(key)
    \/ \E key \in Keys : Get(key)
    \/ \E key \in Keys : Contains(key)
    \/ Length
    \/ KeysCall
    \/ ValuesCall
    \/ ItemsCall

Spec == Init /\ [][Next]_vars

----------------------------------------------------------------------------
(* A chain used on its own: the callers of LinkedList.  ref is the plain   *)
(* sequence the same calls build; onlyAPD holds while every call so far    *)
(* was an append, a prepend or a delete that returned normally.            *)

RECURSIVE RemoveFirst(_, _)
RemoveFirst(s, x) ==
    IF s = <<>> THEN <<>>
    ELSE IF Head(s) = x THEN Tail(s)
    ELSE <<Head(s)>> \o RemoveFirst(Tail(s), x)

RECURSIVE ReplaceFirst(_, _, _)
ReplaceFirst(s, x, y) ==
    IF s = <<>> THEN <<>>
    ELSE IF Head(s) = x THEN <<y>> \o Tail(s)
    ELSE <<Head(s)>> \o ReplaceFirst(Tail(s), x, y)

ChainCall(c, r) ==
    /\ call' = c
    /\ ll' = Collect(r.obj)
    /\ ret' = Outcome(r.exc, r.val)
    /\ pre' = Snapshot
    /\ prior' = NoPrior
    /\ UNCHANGED <<ht, everSet, onlySets, bucketCount>>

CanGrow ==
    /\ Len(LinkedList_items(ll)) < MaxLen
    /\ ll.size < MaxLen
    /\ Len(ref) < MaxLen

ChainAppend(item) ==
    /\ CanGrow
    /\ ChainCall(Call("append", item, None), LinkedList_append(ll, item))
    /\ ref' = Append(ref, item)
    /\ UNCHANGED onlyAPD

ChainPrepend(item) ==
    /\ CanGrow
    /\ ChainCall(Call("prepend", item, None), LinkedList_prepend(ll, item))
    /\ ref' = <<item>> \o ref
    /\ UNCHANGED onlyAPD

ChainDelete(item) ==
    /\ ll.size > -MaxUnderflow
    /\ ChainCall(Call("delete", item, None), LinkedList_delete(ll, item))
    /\ ref' = RemoveFirst(ref, item)
    /\ onlyAPD' = (onlyAPD /\ LinkedList_delete(ll, item).exc = NoExc)

ChainReplace(item, new_data) ==
    /\ ChainCall(Call("replace", item, new_data),
                 LinkedList_replace(ll, item, new_data))
    /\ ref' = ReplaceFirst(ref, item, new_data)
    /\ onlyAPD' = FALSE

ChainFind(quality) ==
    /\ ChainCall(Call("find", quality, None), LinkedList_find(ll, quality))
    /\ UNCHANGED ref
    /\ onlyAPD' = FALSE

ChainInit == Init /\ Len(ht.buckets) = 1

ChainNext ==
    \/ \E item \in ChainItems : ChainAppend(item)
    \/ \E item \in ChainItems : ChainPrepend(item)
    \/ \E item \in ChainItems : ChainDelete(item)
    \/ \E item \in ChainItems, new_data \in ChainItems :
          ChainReplace(item, new_data)
    \/ \E quality \in Qualities : ChainFind(quality)

ChainSpec == ChainInit /\ [][ChainNext]_vars

----------------------------------------------------------------------------
(* Properties of the table (checked under Spec) *)

\* the keys some chain of the table holds
StoredKeys(t) ==
    {HashTable_items(t)[i][1] : i \in 1..Len(HashTable_items(t))}

\* the number of pairs of the table with the given key
Occurrences(t, key) ==
    Cardinality({i \in 1..Len(HashTable_items(t)) :
                    HashTable_items(t)[i][1] = key})

CollidesIn(t, key) == Len(LinkedList_items(BucketOf(t, key))) >= 2

\* C1: a get(k) made right after set(k, v) returns v
C1_SetThenGet ==
    (call.op = "get" /\ prior.op = "set") => ret = Outcome(NoExc, prior.val)

\* the get follows a set of a key that shares its bucket with another key
C1_Witness ==
    /\ call.op = "get" /\ prior.op = "set"
    /\ CollidesIn(ht, call.arg1)
    /\ Scan(LinkedList_items(BucketOf(ht, call.arg1)), call.arg1) >= 2
    /\ ret.val = prior.val

\* C2: while only set has been called on the fresh table, length() is the
\* number of distinct keys ever set
C2_LengthIsDistinctKeysSet ==
    onlySets => HashTable_length(ht) = Cardinality(everSet)

\* a set of a key set before, in a table of two colliding keys
C2_Witness ==
    /\ onlySets /\ call.op = "set"
    /\ call.arg1 \in StoredKeys(pre.ht)
    /\ CollidesIn(ht, call.arg1)
    /\ HashTable_length(ht) = Cardinality(everSet)
    /\ Cardinality(everSet) >= 2

\* C3: a set of a key the table holds leaves length() unchanged, makes
\* get(k) the new value and keeps one entry for k, at its place
C3_SetExistingReplaces ==
    (call.op = "set" /\ call.arg1 \in StoredKeys(pre.ht))
        => /\ HashTable_length(ht) = HashTable_length(pre.ht)
           /\ HashTable_get(ht, call.arg1).exc = NoExc
           /\ HashTable_get(ht, call.arg1).val = call.arg2
           /\ Occurrences(ht, call.arg1) = 1
           /\ HashTable_keys(ht) = HashTable_keys(pre.ht)

\* set(k, v2) of a key stored with v1 # v2, behind another key in its chain
C3_Witness ==
    /\ call.op = "set" /\ call.arg1 \in StoredKeys(pre.ht)
    /\ HashTable_get(pre.ht, call.arg1).val # call.arg2
    /\ Scan(LinkedList_items(BucketOf(ht, call.arg1)), call.arg1) >= 2
    /\ HashTable_get(ht, call.arg1).val = call.arg2
    /\ HashTable_length(ht) = HashTable_length(pre.ht)

\* C4: delete(k) of a key the table holds returns normally; after it
\* contains(k) is false, get(k) raises KeyError and length() is one less
C4_DeletePresentRemoves ==
    (call.op = "delete" /\ call.arg1 \in StoredKeys(pre.ht))
        => /\ ret.exc = NoExc
           /\ HashTable_contains(ht, call.arg1).val = FALSE
           /\ HashTable_get(ht, call.arg1).exc = KeyError
           /\ HashTable_length(ht) = HashTable_length(pre.ht) - 1

\* the key deleted was in a chain of several entries
C4_Witness ==
    /\ call.op = "delete" /\ call.arg1 \in StoredKeys(pre.ht)
    /\ CollidesIn(pre.ht, call.arg1)
    /\ call.arg1 \notin StoredKeys(ht)
    /\ HashTable_length(ht) = HashTable_length(pre.ht) - 1

\* C5: delete(k) and get(k) of a key the table does not hold raise KeyError
\* and change nothing: length(), items() and every chain's count stay
C5_AbsentKeyNoChange ==
    (call.op \in {"delete", "get"} /\ call.arg1 \notin StoredKeys(pre.ht))
        => /\ ret.exc = KeyError
           /\ HashTable_length(ht) = HashTable_length(pre.ht)
           /\ HashTable_items(ht) = HashTable_items(pre.ht)
           /\ \A b \in 1..Len(ht.buckets) :
                 LinkedList_length(ht.buckets[b])
                     = LinkedList_length(pre.ht.buckets[b])
           /\ ht = pre.ht

\* the absent key's bucket holds several entries
C5_Witness ==
    /\ call.op = "delete" /\ call.arg1 \notin StoredKeys(pre.ht)
    /\ CollidesIn(pre.ht, call.arg1)
    /\ ret.exc = KeyError
    /\ ht = pre.ht

\* C6: items() has exactly length() pairs and their keys are pairwise
\* distinct
C6_ItemsMatchLength ==
    /\ Len(HashTable_items(ht)) = HashTable_length(ht)
    /\ \A i, j \in 1..Len(HashTable_items(ht)) :
          i # j => HashTable_items(ht)[i][1] # HashTable_items(ht)[j][1]

\* a failing delete on a table that holds two colliding keys
C6_Witness ==
    /\ call.op = "delete" /\ ret.exc = KeyError
    /\ \E key \in StoredKeys(ht) : CollidesIn(ht, key)
    /\ Len(HashTable_items(ht)) = HashTable_length(ht)

\* C9: set returns normally
C9_SetNeverFails == call.op = "set" => ret.exc = NoExc

\* a set that replaced the entry of a key behind another key in its chain,
\* after a delete
C9_Witness ==
    /\ call.op = "set" /\ ret.exc = NoExc /\ ~onlySets
    /\ call.arg1 \in StoredKeys(pre.ht)
    /\ Scan(LinkedList_items(BucketOf(pre.ht, call.arg1)), call.arg1) >= 2
    /\ HashTable_get(pre.ht, call.arg1).val # call.arg2

\* the place in the concatenation of the pair at place j of bucket b
RECURSIVE Offset(_, _)
Offset(t, b) ==
    IF b = 1 THEN 0
    ELSE Offset(t, b - 1) + Len(LinkedList_items(t.buckets[b - 1]))

\* s is the buckets' chain contents, bucket by bucket, projected by F
IsConcatenation(s, t, F(_)) ==
    /\ Len(s) = Offset(t, Len(t.buckets) + 1)
    /\ \A b \in 1..Len(t.buckets) :
          \A j \in 1..Len(LinkedList_items(t.buckets[b])) :
             s[Offset(t, b) + j] = F(LinkedList_items(t.buckets[b])[j])

First(p) == p[1]
Second(p) == p[2]
Whole(p) == p

\* C10: keys(), values() and items() leave the table unchanged, give the
\* same result when called twice in a row, and give the buckets' chain
\* contents in bucket order and chain order, so that keys()[i] and
\* values()[i] are the components of items()[i]
C10_EnumerationsAgree ==
    /\ call.op \in Enumerations => ht = pre.ht /\ ret.exc = NoExc
    /\ (call.op \in Enumerations /\ prior.op = call.op)
          => ret.val = prior.val
    /\ call.op = "keys" => IsConcatenation(ret.val, ht, First)
    /\ call.op = "values" => IsConcatenation(ret.val, ht, Second)
    /\ call.op = "items" => IsConcatenation(ret.val, ht, Whole)
    /\ (call.op = "values" /\ prior.op = "keys")
          => /\ Len(ret.val) = Len(prior.val)
             /\ Len(ret.val) = Len(HashTable_items(ht))
             /\ \A i \in 1..Len(ret.val) :
                   <<prior.val[i], ret.val[i]>> = HashTable_items(ht)[i]

\* values() right after keys() on a table with two chains in use, one of
\* them of several entries
C10_Witness ==
    /\ call.op = "values" /\ prior.op = "keys"
    /\ Len(ht.buckets) >= 2
    /\ \E b, c \in 1..Len(ht.buckets) :
          /\ b # c
          /\ Len(LinkedList_items(ht.buckets[b])) >= 2
          /\ Len(LinkedList_items(ht.buckets[c])) >= 1
    /\ Len(ret.val) = Len(prior.val)

----------------------------------------------------------------------------
(* Properties of the chain (checked under ChainSpec) *)

\* C7: delete decrements the count exactly when it removes a node; when no
\* entry equals the item it raises ValueError and leaves length() and
\* items() as they were
C7_DeleteCountsOnlyRemovals ==
    call.op = "delete" =>
        /\ (LinkedList_length(ll) = LinkedList_length(pre.ll) - 1)
              <=> (Len(LinkedList_items(ll)) < Len(LinkedList_items(pre.ll)))
        /\ ~InSeq(call.arg1, LinkedList_items(pre.ll))
              => /\ ret.exc = ValueError
                 /\ LinkedList_length(ll) = LinkedList_length(pre.ll)
                 /\ LinkedList_items(ll) = LinkedList_items(pre.ll)

\* C8: while every call was an append, a prepend or a delete that returned
\* normally, items() is the reference sequence and length() its length
C8_ItemsFollowReference ==
    onlyAPD => /\ LinkedList_items(ll) = ref
               /\ LinkedList_length(ll) = Len(ref)

\* C11: the chain's count is the number of nodes head reaches, and so is
\* never negative
C11_CountIsReachableNodes ==
    /\ LinkedList_length(ll) = Len(NodesFrom(ll, ll.head))
    /\ LinkedList_length(ll) >= 0

\* C12: head and tail fit the nodes head reaches: both None when there is
\* none, the same node when there is one, tail the last node with no next
\* otherwise; and an appended item is the last of items()
C12_HeadTailConsistent ==
    LET nodes == NodesFrom(ll, ll.head)
    IN  /\ Len(nodes) = 0 => ll.head = None /\ ll.tail = None
        /\ Len(nodes) = 1 => ll.head = ll.tail
        /\ Len(nodes) >= 1 => /\ ll.tail = nodes[Len(nodes)]
                              /\ ll.next[ll.tail] = None
        /\ call.op = "append"
              => /\ LinkedList_items(ll) # <<>>
                 /\ LinkedList_items(ll)[Len(LinkedList_items(ll))] = call.arg1

\* C13: a delete that returns normally removes the first entry equal to the
\* item and no other: the other entries stay, in their order
C13_DeleteRemovesFirstOnly ==
    (call.op = "delete" /\ InSeq(call.arg1, LinkedList_items(pre.ll)))
        => /\ ret.exc = NoExc
           /\ LinkedList_items(ll)
                 = RemoveFirst(LinkedList_items(pre.ll), call.arg1)

\* C17: is_empty() is true exactly when length() is 0
C17_EmptyIffZeroLength ==
    LinkedList_is_empty(ll) <=> (LinkedList_length(ll) = 0)

\* C14: replace(item, new_data) rewrites the first entry equal to item, at
\* its place, and leaves the other entries, the links and the count alone;
\* when no entry equals item it raises ValueError and changes nothing
C14_ReplaceFirstInPlace ==
    call.op = "replace" =>
        IF InSeq(call.arg1, LinkedList_items(pre.ll))
        THEN /\ ret.exc = NoExc
             /\ LinkedList_items(ll)
                   = ReplaceFirst(LinkedList_items(pre.ll), call.arg1,
                                  call.arg2)
             /\ LinkedList_length(ll) = LinkedList_length(pre.ll)
             /\ ll.head = pre.ll.head /\ ll.tail = pre.ll.tail
             /\ ll.next = pre.ll.next
        ELSE /\ ret.exc = ValueError
             /\ ll = pre.ll

\* a replace by a different item in a chain that holds the item twice, the
\* first of them behind another entry
C14_Witness ==
    /\ call.op = "replace" /\ ret.exc = NoExc /\ call.arg1 # call.arg2
    /\ LET items == LinkedList_items(pre.ll)
       IN  /\ Cardinality({i \in 1..Len(items) : items[i] = call.arg1}) >= 2
           /\ items[1] # call.arg1
    /\ InSeq(call.arg1, LinkedList_items(ll))

\* C18: find returns the first entry, from head, of the given quality, or
\* None when the chain is empty or no entry has it, and leaves the chain
\* as it was
C18_FindFirstMatch ==
    call.op = "find" =>
        LET items == LinkedList_items(pre.ll)
            matches == {i \in 1..Len(items) : items[i] \in call.arg1}
        IN  /\ ret.exc = NoExc
            /\ ll = pre.ll
            /\ matches = {} => ret.val = None
            /\ matches # {}
                  => ret.val = items[CHOOSE i \in matches :
                                        \A j \in matches : i <= j]

\* a find in a chain where two different entries have the quality
C18_Witness ==
    /\ call.op = "find"
    /\ LET items == LinkedList_items(ll)
       IN  \E i, j \in 1..Len(items) :
              /\ i < j
              /\ items[i] \in call.arg1 /\ items[j] \in call.arg1
              /\ items[i] # items[j]
              /\ \A k \in 1..(i - 1) : items[k] \notin call.arg1
              /\ ret.val = items[i]

----------------------------------------------------------------------------
(* Further properties of the table (checked under Spec) *)

RECURSIVE SumOfLengths(_, _)
SumOfLengths(t, b) ==
    IF b > Len(t.buckets) THEN 0
    ELSE LinkedList_length(t.buckets[b]) + SumOfLengths(t, b + 1)

\* C15: the table's count is the sum of the chains' own counts and the
\* number of distinct keys stored
C15_CountsAgree ==
    /\ HashTable_length(ht) = SumOfLengths(ht, 1)
    /\ HashTable_length(ht) = Cardinality(StoredKeys(ht))

\* after a delete that emptied a chain of one entry and left others stored
C15_Witness ==
    /\ call.op = "delete" /\ ret.exc = NoExc
    /\ Len(LinkedList_items(BucketOf(pre.ht, call.arg1))) = 1
    /\ HashTable_length(ht) >= 2
    /\ HashTable_length(ht) = SumOfLengths(ht, 1)

\* C16: set(k, v) and delete(k) leave every bucket but that of k as it was,
\* and contains and get of every other key give what they gave before
C16_OneBucketTouched ==
    call.op \in {"set", "delete"} =>
        /\ \A b \in 1..Len(ht.buckets) :
              b # HashTable_bucket_index(pre.ht, call.arg1) + 1
                 => ht.buckets[b] = pre.ht.buckets[b]
        /\ \A key \in Keys \ {call.arg1} :
              /\ HashTable_contains(ht, key).val
                    = HashTable_contains(pre.ht, key).val
              /\ HashTable_get(ht, key).exc = HashTable_get(pre.ht, key).exc
              /\ HashTable_get(ht, key).val = HashTable_get(pre.ht, key).val

\* a delete of a stored key with other keys before and behind it in its chain
C16_Witness ==
    /\ call.op = "delete" /\ ret.exc = NoExc
    /\ LET items == LinkedList_items(BucketOf(pre.ht, call.arg1))
           i == Scan(items, call.arg1)
       IN  1 < i /\ i < Len(items)
    /\ Len(LinkedList_items(BucketOf(ht, call.arg1))) >= 2

\* C19: the table keeps the number of buckets it was constructed with, every
\* stored pair is in the chain of bucket hash(k) mod that number and no key
\* is in two buckets, and contains(k) is true exactly for the keys of keys()
C19_EntriesInTheirBucket ==
    /\ Len(ht.buckets) = bucketCount
    /\ \A b \in 1..Len(ht.buckets) :
          \A i \in 1..Len(LinkedList_items(ht.buckets[b])) :
             LET key == LinkedList_items(ht.buckets[b])[i][1]
             IN  /\ Hash(key) % bucketCount = b - 1
                 /\ \A c \in 1..Len(ht.buckets) :
                       (\E j \in 1..Len(LinkedList_items(ht.buckets[c])) :
                           LinkedList_items(ht.buckets[c])[j][1] = key)
                          => c = b
    /\ \A key \in Keys :
          HashTable_contains(ht, key).val <=> InSeq(key, HashTable_keys(ht))

\* after a delete, a table of several buckets with two chains in use, one
\* of them of colliding keys
C19_Witness ==
    /\ ~onlySets /\ bucketCount >= 2 /\ Len(ht.buckets) = bucketCount
    /\ \E b, c \in 1..Len(ht.buckets) :
          /\ b # c
          /\ Len(LinkedList_items(ht.buckets[b])) >= 2
          /\ Len(LinkedList_items(ht.buckets[c])) >= 1
    /\ \A key \in StoredKeys(ht) : HashTable_contains(ht, key).val

====
